---- MODULE Spec2Model ----
(***************************************************************************)
(* Model of skills/splice-deed/scripts/splice_deed.py: the double-page     *)
(* splitter (classifier, downsampler, gutter scorer, split locator,        *)
(* splitter and the batch loop of main).                                   *)
(*                                                                         *)
(* Numbers.  Python ints are unbounded and Python floats are IEEE-754      *)
(* doubles.  Every float expression of the source is modelled by the       *)
(* integer it produces:                                                    *)
(*   - w / max(h, 1) >= 1.35, int(h * 0.08), int(h * 0.92),                *)
(*     int(w * search / 2.0), int(w * band), int(w / 500) and              *)
(*     best_score > center_score * 0.95 agree with exact rational          *)
(*     arithmetic for every dimension below 3000 and every fraction of     *)
(*     SearchFractions and BandFractions (compared against CPython);       *)
(*   - scale = max(w, h) / float(max_dim), int(w / scale) and              *)
(*     int(best * scale) do NOT agree with exact arithmetic: the rounding  *)
(*     of scale can push an exactly integral quotient or product below     *)
(*     the integer.  ScaleErr, IntDivScale and IntMulScale compute the     *)
(*     double-precision result from the remainder of the 53-bit division.  *)
(***************************************************************************)
EXTENDS Integers, Sequences, FiniteSets, TLC

VARIABLES
    pc,             \* position of main: "open", "classify", ... , "summary", "done"
    args,           \* the parsed command line (mode, search, band, force, organize)
    idx,            \* index into imgs of the image being processed (for img_path in imgs)
    total_written,  \* main's counters
    total_split,
    skipped_single,
    errors,
    cur,            \* what main holds for the current image (im, mode, split_x, sub-images)
    fs,             \* the output folder: the set of written output names
    log,            \* the lines printed so far, one per image
    call            \* the last direct call of a function of the module, with its result

vars == <<pc, args, idx, total_written, total_split, skipped_single, errors,
          cur, fs, log, call>>

----------------------------------------------------------------------------
(* Integer helpers *)

Max(a, b) == IF a >= b THEN a ELSE b

Min(a, b) == IF a <= b THEN a ELSE b

RECURSIVE Pow2(_)
Pow2(n) == IF n <= 0 THEN 1 ELSE 2 * Pow2(n - 1)

\* (b ^ e) mod n by squaring (b < n, n * n within TLC's integers)
RECURSIVE PowMod(_, _, _)
PowMod(b, e, n) ==
    IF e = 0 THEN 1 % n
    ELSE IF e % 2 = 0 THEN PowMod((b * b) % n, e \div 2, n)
    ELSE (b * PowMod(b, e - 1, n)) % n

\* floor(log2(a / b)) for a >= b > 0
RECURSIVE FloorLog2(_, _, _)
FloorLog2(a, b, f) == IF a >= 2 * b * Pow2(f) THEN FloorLog2(a, b, f + 1) ELSE f

\* exponent of the binade that ends at k: the doubles just below k >= 1 are
\* spaced 2^(BinadeBelow(k) - 52) apart
RECURSIVE BinadeUp(_, _)
BinadeUp(k, p) == IF Pow2(p + 1) < k THEN BinadeUp(k, p + 1) ELSE p

BinadeBelow(k) == IF k > 1 THEN BinadeUp(k, 0) ELSE -1

----------------------------------------------------------------------------
(* Program constants *)

\* downsample_for_analysis(img, max_dim=900)
DEFAULT_MAX_DIM == 900

\* the sentinel 10**18 of the gutter scorers.  TLC's integers are 32-bit: the
\* sentinel is modelled by 10**8, which exceeds every real score 255 * area of
\* the model's bands (area < 390000 pixels) exactly as 10**18 exceeds the
\* score of every band of a real image.
SENTINEL == 100000000

\* 1.35 = 27/20: w / max(h, 1) >= 1.35  <=>  20 * w >= 27 * max(h, 1)
RATIO_NUM == 27

RATIO_DEN == 20

\* 0.95 = 19/20: best_score > center_score * 0.95 <=> 20 * best > 19 * center
BIAS_NUM == 19

BIAS_DEN == 20

\* y0 = int(h * 0.08), y1 = int(h * 0.92)
MARGIN_LO == 8

MARGIN_HI == 92

\* step = max(1, int(w / 500))
STRIDE_DIV == 500

WHITE == 255

----------------------------------------------------------------------------
(* Images.  An image is its size and its luminance raster (what            *)
(* img.convert("RGB") ... .convert("L") yields), given by a background bg, *)
(* a stripe of value fg over the coordinates [lo, hi) of axis "v" (columns)*)
(* or "h" (rows), and one pixel (sx, sy) of value sv (sx = -1: none).      *)
(* cmode is the colour mode ("RGB", or "P" which JPEG cannot store).       *)

Image(w, h, bg, fg, lo, hi, axis) ==
    [w |-> w, h |-> h, bg |-> bg, fg |-> fg, lo |-> lo, hi |-> hi, axis |-> axis,
     sx |-> -1, sy |-> -1, sv |-> 0, cmode |-> "RGB"]

Uniform(w, h, v) == Image(w, h, v, v, 0, 0, "v")

\* gray.getpixel((x, y)) for 0 <= x < w, 0 <= y < h
Pixel(img, x, y) ==
    IF x = img.sx /\ y = img.sy THEN img.sv
    ELSE IF img.axis = "v" /\ img.lo <= x /\ x < img.hi THEN img.fg
    ELSE IF img.axis = "h" /\ img.lo <= y /\ y < img.hi THEN img.fg
    ELSE img.bg

\* every pixel has the same value
IsUniform(img) ==
    /\ img.sx = -1
    /\ \/ img.fg = img.bg
       \/ img.hi <= img.lo
       \/ img.lo <= 0 /\ img.hi >= (IF img.axis = "v" THEN img.w ELSE img.h)

\* the image mirrored on its diagonal: rows become columns
Transpose(img) ==
    [img EXCEPT !.w = img.h, !.h = img.w, !.sx = img.sy, !.sy = img.sx,
                !.axis = IF img.axis = "v" THEN "h" ELSE "v"]

\* img with the pixel (x, y) set to v
WithPixel(img, x, y, v) == [img EXCEPT !.sx = x, !.sy = y, !.sv = v]

\* the intensities an image of the model can hold (the histogram's other bins are 0)
Intensities(img) == {img.bg, img.fg, img.sv}

----------------------------------------------------------------------------
(* is_probably_double_page and the auto branch of main *)

\* mutant: the boundary excluded (> instead of >=)
is_probably_double_page_strict(w, h) == RATIO_DEN * w > RATIO_NUM * Max(h, 1)

is_probably_double_page(w, h) == RATIO_DEN * w >= RATIO_NUM * Max(h, 1)

\* main, lines 188-197: the axis chosen for a w x h image under args.mode;
\* "single" is the skipped_single branch
Classify(m, w, h) ==
    IF m = "auto"
    THEN IF is_probably_double_page(w, h) THEN "vertical"
         ELSE IF RATIO_DEN * h >= RATIO_NUM * Max(w, 1) THEN "horizontal"
         ELSE "single"
    ELSE m

----------------------------------------------------------------------------
(* downsample_for_analysis *)

\* scale = max(w, h) / float(max_dim) is the double nearest to M / md.  With
\* 2^52 <= mant < 2^53 and mant * 2^-e the double, mant * md = M * 2^e + d:
\* d is the signed rounding error (round to nearest, ties to even), found
\* from the remainder of M * 2^e by md.  Returns <<floor(log2(M/md)), d>>.
ScaleErr(M, md) ==
    LET f  == FloorLog2(M, md, 0)
        e  == 52 - f
        r  == ((M % md) * PowMod(2, e, md)) % md
        r2 == ((M % (2 * md)) * PowMod(2, e, 2 * md)) % (2 * md)
    IN  IF 2 * r < md THEN <<f, -r>>
        ELSE IF 2 * r > md THEN <<f, md - r>>
        ELSE IF ((r2 - r) \div md) % 2 = 0 THEN <<f, -r>> ELSE <<f, md - r>>

\* int(w / scale) for scale = M / float(md), M > md: floor(w * md / M), except
\* that an exactly integral quotient k computed with a scale rounded up lies
\* below k, and is rounded to a double below k when the gap exceeds half the
\* spacing of the doubles below k.
IntDivScale(w, M, md) ==
    LET N == w * md
        k == N \div M
        se == ScaleErr(M, md)
    IN  IF N % M # 0 \/ k = 0 THEN k
        ELSE IF se[2] <= 0 THEN k
        ELSE IF k * se[2] * Pow2(2 + se[1]) > M * Pow2(BinadeBelow(k) + 1)
             THEN k - 1 ELSE k

\* int(c * scale) for scale = M / float(md), M > md: floor(c * M / md), except
\* that an exactly integral product computed with a scale rounded down can be
\* rounded to a double below it.
IntMulScale(c, M, md) ==
    LET N == c * M
        k == N \div md
        se == ScaleErr(M, md)
    IN  IF N % md # 0 \/ k = 0 THEN k
        ELSE IF se[2] >= 0 THEN k
        ELSE IF c * (0 - se[2]) * Pow2(2 + se[1]) > md * Pow2(BinadeBelow(k) + 1)
             THEN k - 1 ELSE k

\* The scale is kept as the pair <<M, md>> it is the double nearest to;
\* <<1, 1>> is the literal 1.0 of the early return.

\* img.resize((new_w, new_h), Image.BILINEAR): the resampling is Pillow's.  A
\* uniform image resamples to the uniform image of the new size (the kernel's
\* weights are normalised); no other image is resized in this model.
Resize(img, new_w, new_h) == Uniform(new_w, new_h, img.bg)

\* mutant: the new side without its lower bound of 1
NewSideUnclamped(side, M, max_dim) == IntDivScale(side, M, max_dim)

\* new_w = max(1, int(w / scale)) (and new_h)
NewSide(side, M, max_dim) == Max(1, IntDivScale(side, M, max_dim))

\* downsample_for_analysis(img, max_dim): the returned (image, scale); raised
\* tells that resize was given an empty size, which Pillow refuses
\* (ValueError: height and width must be > 0)
downsample_for_analysis(img, max_dim) ==
    LET M == Max(img.w, img.h)
        new_w == NewSide(img.w, M, max_dim)
        new_h == NewSide(img.h, M, max_dim)
    IN  IF M <= max_dim
        THEN [img |-> img, scale |-> <<1, 1>>, raised |-> FALSE]
        ELSE [img |-> Resize(img, new_w, new_h), scale |-> <<M, max_dim>>,
              raised |-> new_w < 1 \/ new_h < 1]

\* int(best * scale)
BackMap(c, scale) ==
    IF scale = <<1, 1>> THEN c ELSE IntMulScale(c, scale[1], scale[2])

----------------------------------------------------------------------------
(* gutter_score_vertical / gutter_score_horizontal *)

RECURSIVE SumOver(_, _)
\* sum of f[i] over the domain S of the function f restricted to S
SumOver(S, f) ==
    IF S = {} THEN 0
    ELSE LET i == CHOOSE j \in S : TRUE IN f[i] + SumOver(S \ {i}, f)

\* gray.crop((x0, y0, x1, y1)) for x0 <= x1, y0 <= y1: the pixels of the box,
\* those outside the image being black (Pillow pads a crop with zeros)
Crop(img, x0, y0, x1, y1) ==
    [p \in (x0 .. x1 - 1) \X (y0 .. y1 - 1) |->
        IF 0 <= p[1] /\ p[1] < img.w /\ 0 <= p[2] /\ p[2] < img.h
        THEN Pixel(img, p[1], p[2]) ELSE 0]

\* band.histogram(), on the bins that can be non-empty
Histogram(band, bins) ==
    [i \in bins |-> Cardinality({p \in DOMAIN band : band[p] = i})]

\* mutant: the brightness summed instead of the ink (i instead of 255 - i)
InkOfBrightness(hist) == SumOver(DOMAIN hist, [i \in DOMAIN hist |-> i * hist[i]])

\* sum((255 - i) * c for i, c in enumerate(hist))
InkOf(hist) == SumOver(DOMAIN hist, [i \in DOMAIN hist |-> (WHITE - i) * hist[i]])

\* the score of the box: crop, histogram, weighted sum.  (An identifier bound
\* by \in holds a value computed once; TLC recomputes a LET at each use.)
BandInk(gray, x0, y0, x1, y1) ==
    CHOOSE s \in {InkOf(hist) :
                    hist \in {Histogram(band, Intensities(gray) \cup {0}) :
                                band \in {Crop(gray, x0, y0, x1, y1)}}} : TRUE

\* mutant: the band starting at x_center instead of centred on it
gutter_score_vertical_uncentered(gray, x_center, band_px, y0, y1) ==
    LET x0 == Max(0, x_center)
        x1 == Min(gray.w, x0 + band_px)
    IN  IF x1 <= x0 THEN SENTINEL ELSE BandInk(gray, x0, y0, x1, y1)

gutter_score_vertical(gray, x_center, band_px, y0, y1) ==
    LET x0 == Max(0, x_center - band_px \div 2)
        x1 == Min(gray.w, x0 + band_px)
    IN  IF x1 <= x0 THEN SENTINEL ELSE BandInk(gray, x0, y0, x1, y1)

gutter_score_horizontal(gray, y_center, band_px, x0, x1) ==
    LET y0 == Max(0, y_center - band_px \div 2)
        y1 == Min(gray.h, y0 + band_px)
    IN  IF y1 <= y0 THEN SENTINEL ELSE BandInk(gray, x0, y0, x1, y1)

----------------------------------------------------------------------------
(* find_split_vertical / find_split_horizontal *)

\* A fraction (args.search, args.band) is the pair <<num, den>>.
\* int(dim * fraction / 2.0)
HalfWindow(dim, search) == (dim * search[1]) \div (2 * search[2])

\* max(2, int(dim * band))
BandPx(dim, band) == Max(2, (dim * band[1]) \div band[2])

\* mutant: the stride without its lower bound of 1
StrideUnclamped(dim) == dim \div STRIDE_DIV

\* max(1, int(dim / 500))
Stride(dim) == Max(1, dim \div STRIDE_DIV)

\* the band score of the axis: gutter_score_vertical over the rows [p0, p1),
\* gutter_score_horizontal over the columns [p0, p1)
ScoreAt(gray, axis, c, band_px, p0, p1) ==
    IF axis = "vertical" THEN gutter_score_vertical(gray, c, band_px, p0, p1)
    ELSE gutter_score_horizontal(gray, c, band_px, p0, p1)

\* list(range(start, end + 1, step)), step >= 1
Range(start, end, step) ==
    IF start > end THEN <<>>
    ELSE [i \in 1 .. ((end - start) \div step + 1) |-> start + (i - 1) * step]

\* mutant: the comparison reversed, keeping the darkest band
VisitKeepsWorst(gray, axis, x, band_px, p0, p1, best) ==
    CHOOSE nb \in {IF best.score = -1 \/ s > best.score
                   THEN [x |-> x, score |-> s] ELSE best :
                     s \in {ScoreAt(gray, axis, x, band_px, p0, p1)}} : TRUE

\* one iteration of the for loop; best is [x, score], score = -1 standing for
\* None (s = gutter_score(...); if best_score is None or s < best_score:
\* best_score = s; best_x = x)
Visit(gray, axis, x, band_px, p0, p1, best) ==
    CHOOSE nb \in {IF best.score = -1 \/ s < best.score
                   THEN [x |-> x, score |-> s] ELSE best :
                     s \in {ScoreAt(gray, axis, x, band_px, p0, p1)}} : TRUE

\* the iterations xs[lo], ..., xs[hi] of the for loop, in this order (the
\* range is halved only to bound the depth of the evaluation)
RECURSIVE Scan(_, _, _, _, _, _, _, _, _)
Scan(gray, axis, xs, lo, hi, band_px, p0, p1, best) ==
    IF lo > hi THEN best
    ELSE IF lo = hi THEN Visit(gray, axis, xs[lo], band_px, p0, p1, best)
    ELSE CHOOSE r \in
           {Scan(gray, axis, xs, (lo + hi) \div 2 + 1, hi, band_px, p0, p1, left) :
              left \in {Scan(gray, axis, xs, lo, (lo + hi) \div 2, band_px, p0, p1,
                             best)}} : TRUE

\* if best_score is None or best_score > center_score * 0.95: best = mid
FallsBack(best_score, center_score) ==
    best_score = -1 \/ BIAS_DEN * best_score > BIAS_NUM * center_score

\* what a call that raised returns to the model: no coordinate
NoResult(gray, scale) ==
    [raised |-> TRUE, gray |-> gray, scale |-> scale, dim |-> 0, p0 |-> 0, p1 |-> 0,
     mid |-> 0, start |-> 0, end |-> 0, band_px |-> 0, step |-> 0, xs |-> <<>>,
     best_x |-> 0, best_score |-> -1, center_score |-> -1, chosen |-> -1, ret |-> -1]

\* lines 64-89 (92-120): everything after the downsampling, on the analysis
\* image gray and its scale, with every local kept in the result.  The two
\* calls that can raise are range() with a step of 0 and crop() with a box
\* whose lower edge is above its upper edge.
Locate(gray, scale, axis, search, band) ==
    LET dim   == IF axis = "vertical" THEN gray.w ELSE gray.h
        perp  == IF axis = "vertical" THEN gray.h ELSE gray.w
        p0    == (perp * MARGIN_LO) \div 100
        p1    == (perp * MARGIN_HI) \div 100
        mid   == dim \div 2
        half_window == HalfWindow(dim, search)
        start == Max(1, mid - half_window)
        end   == Min(dim - 2, mid + half_window)
        band_px == BandPx(dim, band)
        step  == Stride(dim)
    IN  IF step < 1 \/ p1 < p0 THEN NoResult(gray, scale)
        ELSE CHOOSE r \in
          {[raised |-> FALSE,
            gray |-> gray, scale |-> scale, dim |-> dim, p0 |-> p0, p1 |-> p1,
            mid |-> mid, start |-> start, end |-> end, band_px |-> band_px,
            step |-> step, xs |-> xs, best_x |-> best.x, best_score |-> best.score,
            center_score |-> center_score,
            chosen |-> IF FallsBack(best.score, center_score) THEN mid ELSE best.x,
            ret |-> BackMap(IF FallsBack(best.score, center_score)
                            THEN mid ELSE best.x, scale)] :
             <<xs, best, center_score>> \in
               {<<ys, Scan(gray, axis, ys, 1, Len(ys), band_px, p0, p1,
                           [x |-> mid, score |-> -1]),
                  ScoreAt(gray, axis, mid, band_px, p0, p1)>> :
                    ys \in {Range(start, end, step)}}} : TRUE

\* small, scale = downsample_for_analysis(img.convert("RGB")); gray =
\* small.convert("L"); then the search
FindSplit(img, axis, search, band) ==
    CHOOSE r \in {IF ds.raised THEN NoResult(ds.img, ds.scale)
                  ELSE Locate(ds.img, ds.scale, axis, search, band) :
                    ds \in {downsample_for_analysis(img, DEFAULT_MAX_DIM)}} : TRUE

find_split_vertical(img, search, band) == FindSplit(img, "vertical", search, band)

find_split_horizontal(img, search, band) == FindSplit(img, "horizontal", search, band)

----------------------------------------------------------------------------
(* Bounds and inputs *)

\* images in the scanned folder
NumImages == 2

\* sides of the small images of the batch
MaxSide == 3

DEFAULT_SEARCH == <<12, 100>>

DEFAULT_BAND == <<1, 100>>

\* sizes at the classifier's boundary and above the analysis limit
BoundarySizes == {<<135, 100>>, <<134, 100>>, <<100, 135>>, <<1000, 3>>}

BatchSizes == ((1 .. MaxSide) \X (1 .. MaxSide)) \cup BoundarySizes

BatchImages == {Uniform(d[1], d[2], v) : d \in BatchSizes, v \in {0, WHITE}}

\* the images with vertical stripes (and the uniform ones) of the sizes
\* dims, in the (background, stripe) values of contrasts
Striped(dims, contrasts) ==
    UNION {{Image(d[1], d[2], c[1], c[2], st[1], st[2], "v") :
              c \in contrasts,
              st \in {t \in (0 .. d[1] - 1) \X (1 .. d[1]) : t[1] < t[2]}}
           \cup {Uniform(d[1], d[2], c[1]) : c \in contrasts} : d \in dims}

\* inputs of the direct calls of downsample_for_analysis
MaxDsSide == 9

MaxDsDim == 7

LargeSizes == {<<901, 1>>, <<903, 2>>, <<907, 2>>, <<1000, 3>>, <<1001, 3>>,
               <<2000, 5>>, <<3, 1000>>, <<20, 1800>>}

DsInputs ==
    {<<Uniform(w, h, 0), md>> : w \in 1 .. MaxDsSide, h \in 1 .. MaxDsSide,
                                md \in 1 .. MaxDsDim}
    \cup {<<Uniform(d[1], d[2], WHITE), DEFAULT_MAX_DIM>> : d \in LargeSizes}
    \cup {<<im, md>> : im \in Striped({<<3, 2>>}, {<<0, WHITE>>}), md \in {3, DEFAULT_MAX_DIM}}

\* inputs of the direct calls of the gutter scorers
MaxScoreSide == 3

MaxScoreRows == 2

MaxBandPx == 2

ScorerImages ==
    Striped((1 .. MaxScoreSide) \X (1 .. MaxScoreRows), {<<0, WHITE>>, <<WHITE, 100>>})

\* inputs of the direct calls of the locators: the side searched is at most
\* MaxLocSide, or the image is uniform and larger than the analysis limit
MaxLocSide == 8

SearchFractions == {DEFAULT_SEARCH, <<1, 2>>, <<9, 10>>}

BandFractions == {DEFAULT_BAND, <<1, 2>>}

SmallLocatorImages ==
    Striped((1 .. MaxLocSide) \X (1 .. 3), {<<0, WHITE>>, <<100, 120>>, <<WHITE, 0>>})

LargeLocatorImages ==
    {Uniform(d[1], d[2], v) : d \in {<<903, 2>>, <<907, 2>>, <<1000, 3>>,
                                     <<1001, 3>>, <<2000, 5>>, <<1, 1000>>,
                                     <<2, 1000>>, <<3, 1000>>},
                              v \in {0, WHITE}}

\* <<img, search, band>>
LocatorInputs ==
    (SmallLocatorImages \X SearchFractions \X BandFractions)
    \cup (LargeLocatorImages \X SearchFractions \X {DEFAULT_BAND})

NoImage == Uniform(0, 0, 0)

NoPart == [w |-> -1, h |-> -1]

NoCur == [im |-> NoImage, mode |-> "none", ret |-> -1, split |-> -1,
          part1 |-> NoPart, part2 |-> NoPart, written |-> 0]

NoCall == [fn |-> "none"]

\* out_names(stem, suffix) for the idx-th image: the two output files
out_names(i) == <<(<<i, 1>>), (<<i, 2>>)>>

\* im.crop(box).size for a box (x0, y0, x1, y1)
CropSize(box) == [w |-> box[3] - box[1], h |-> box[4] - box[2]]

\* split_x = max(1, min(w - 1, split_x))
ClampSeam(dim, seam) == Max(1, Min(dim - 1, seam))

\* mutant: the second crop starting one pixel after the seam
SplitBoxesGap(axis, w, h, seam) ==
    IF axis = "vertical"
    THEN << <<0, 0, seam, h>>, <<seam + 1, 0, w, h>> >>
    ELSE << <<0, 0, w, seam>>, <<0, seam + 1, w, h>> >>

\* the boxes of the two crops: (0, 0, split_x, h) and (split_x, 0, w, h), or
\* (0, 0, w, split_y) and (0, split_y, w, h)
SplitBoxes(axis, w, h, seam) ==
    IF axis = "vertical"
    THEN << <<0, 0, seam, h>>, <<seam, 0, w, h>> >>
    ELSE << <<0, 0, w, seam>>, <<0, seam, w, h>> >>

\* safe_save.  A path is [name, ext]; the library's part is an input: first
\* is what img.save does ("ok", "OSError", or "other" for any other
\* exception), retry what img.convert("RGB").save does ("ok" or "fail").
SaveFormats == {"png", "jpg"}

\* line 132: JPEG does not store palette or alpha modes, the save raises
\* OSError; any save can also fail on the file system
FirstOutcomes(img, path) ==
    IF path.ext = "jpg" /\ img.cmode \in {"P", "RGBA"}
    THEN {"OSError"} ELSE {"ok", "OSError", "other"}

RetryOutcomes == {"ok", "fail"}

NoFile == [path |-> "none", cmode |-> "none"]

\* mutant: no except clause, the OSError of the first attempt propagates
safe_save_no_retry(img, path, first, retry) ==
    IF first = "ok"
    THEN [raised |-> FALSE, attempts |-> 1, converted |-> FALSE,
          file |-> [path |-> path, cmode |-> img.cmode]]
    ELSE [raised |-> TRUE, attempts |-> 1, converted |-> FALSE, file |-> NoFile]

\* safe_save(img, path): the number of save attempts, whether convert("RGB")
\* ran, the file left at path, and whether an exception leaves the function
safe_save(img, path, first, retry) ==
    IF first = "ok"
    THEN [raised |-> FALSE, attempts |-> 1, converted |-> FALSE,
          file |-> [path |-> path, cmode |-> img.cmode]]
    ELSE IF first # "OSError"
    THEN [raised |-> TRUE, attempts |-> 1, converted |-> FALSE, file |-> NoFile]
    ELSE IF retry = "ok"
    THEN [raised |-> FALSE, attempts |-> 2, converted |-> TRUE,
          file |-> [path |-> path, cmode |-> "RGB"]]
    ELSE [raised |-> TRUE, attempts |-> 2, converted |-> TRUE, file |-> NoFile]

\* the results safe_save can have for img and the name of an output file
SaveResults(img, name) ==
    {safe_save(img, path, first, retry) :
        path \in {[name |-> name, ext |-> e] : e \in SaveFormats},
        first \in UNION {FirstOutcomes(img, [name |-> name, ext |-> e]) : e \in SaveFormats},
        retry \in RetryOutcomes}

\* find_split_vertical / find_split_horizontal with the default fractions on
\* every image of the batch, computed once: the pairs <<(image, axis), result>>
SplitSeams ==
    {<<k, FindSplit(k[1], k[2], DEFAULT_SEARCH, DEFAULT_BAND)>> :
        k \in BatchImages \X {"vertical", "horizontal"}}

\* the locator call of main: find_split_vertical(im, args.search, args.band)
\* or find_split_horizontal(...)
CallLocator(im, axis, search, band) ==
    IF search = DEFAULT_SEARCH /\ band = DEFAULT_BAND /\ im \in BatchImages
    THEN (CHOOSE p \in SplitSeams : p[1] = <<im, axis>>)[2]
    ELSE FindSplit(im, axis, search, band)

----------------------------------------------------------------------------
(* main *)

Init ==
    /\ pc = "open"
    /\ args \in [mode : {"auto", "vertical", "horizontal"},
                 search : {DEFAULT_SEARCH}, band : {DEFAULT_BAND},
                 force : BOOLEAN, organize : BOOLEAN]
    /\ idx = 1
    /\ total_written = 0
    /\ total_split = 0
    /\ skipped_single = 0
    /\ errors = 0
    /\ cur = NoCur
    /\ fs \in {{}, {<<1, 1>>, <<1, 2>>}}
    /\ log = <<>>
    /\ call = NoCall

\* the end of one iteration of "for img_path in imgs": the line printed, and
\* (for the record) the number of files the iteration wrote
NextImage(line) ==
    /\ log' = Append(log, [idx |-> idx, line |-> line, written |-> cur.written])
    /\ idx' = idx + 1
    /\ cur' = NoCur
    /\ pc' = "open"

\* mutant: no handler around the loop body, the exception ends the run
FailedAborts ==
    /\ errors' = errors + 1
    /\ log' = Append(log, [idx |-> idx, line |-> "failed", written |-> cur.written])
    /\ UNCHANGED <<idx, cur>>
    /\ pc' = "aborted"

\* except Exception as e: errors += 1; print("failed | wrote 0 | ...")
Failed ==
    /\ errors' = errors + 1
    /\ NextImage("failed")

\* with Image.open(img_path) as im: w, h = im.size
OpenImage ==
    /\ pc = "open" /\ idx <= NumImages
    /\ \E im \in BatchImages : cur' = [cur EXCEPT !.im = im]
    /\ pc' = "classify"
    /\ UNCHANGED <<args, idx, total_written, total_split, skipped_single, errors,
                   fs, log, call>>

\* Image.open raises on a file that is no image
OpenFails ==
    /\ pc = "open" /\ idx <= NumImages
    /\ Failed
    /\ UNCHANGED <<args, total_written, total_split, skipped_single, fs, call>>

\* lines 188-194: mode = args.mode, the auto branch
ClassifyImage ==
    /\ pc = "classify"
    /\ cur' = [cur EXCEPT !.mode = Classify(args.mode, cur.im.w, cur.im.h)]
    /\ pc' = IF cur'.mode = "single" THEN "skip_single" ELSE "exists"
    /\ UNCHANGED <<args, idx, total_written, total_split, skipped_single, errors,
                   fs, log, call>>

\* lines 195-197: print("skipped_single ..."); skipped_single += 1; continue
SkipSingle ==
    /\ pc = "skip_single"
    /\ skipped_single' = skipped_single + 1
    /\ NextImage("skipped_single")
    /\ UNCHANGED <<args, total_written, total_split, errors, fs, call>>

\* lines 208-210: both outputs exist and --force is not given
CheckExisting ==
    /\ pc = "exists"
    /\ IF out_names(idx)[1] \in fs /\ out_names(idx)[2] \in fs /\ ~args.force
       THEN NextImage("skipped_existing")
       ELSE /\ pc' = "split"
            /\ UNCHANGED <<idx, log, cur>>
    /\ UNCHANGED <<args, total_written, total_split, skipped_single, errors, fs, call>>

\* lines 212-216 and 220-223: locate, clamp, crop (an exception of the
\* locator would reach the handler of line 235)
SplitImage ==
    /\ pc = "split"
    /\ \E r \in {CallLocator(cur.im, cur.mode, args.search, args.band)} :
         IF r.raised
         THEN Failed /\ UNCHANGED <<total_written, total_split, skipped_single, fs>>
         ELSE \E seam \in {ClampSeam(IF cur.mode = "vertical" THEN cur.im.w
                                     ELSE cur.im.h, r.ret)} :
                \E boxes \in {SplitBoxes(cur.mode, cur.im.w, cur.im.h, seam)} :
                  /\ cur' = [cur EXCEPT !.ret = r.ret, !.split = seam,
                                        !.part1 = CropSize(boxes[1]),
                                        !.part2 = CropSize(boxes[2])]
                  /\ pc' = "save1"
                  /\ UNCHANGED <<idx, total_written, total_split, skipped_single,
                                 errors, fs, log>>
    /\ UNCHANGED <<args, call>>

\* safe_save(left, out1) returns: the file is written (directly, or by the
\* retry after the RGB conversion)
SaveFirst ==
    /\ pc = "save1"
    /\ \E r \in SaveResults(cur.im, out_names(idx)[1]) :
         ~r.raised /\ fs' = fs \cup {r.file.path.name}
    /\ cur' = [cur EXCEPT !.written = cur.written + 1]
    /\ pc' = "save2"
    /\ UNCHANGED <<args, idx, total_written, total_split, skipped_single, errors,
                   log, call>>

\* safe_save(left, out1) raises
SaveFirstFails ==
    /\ pc = "save1"
    /\ \E r \in SaveResults(cur.im, out_names(idx)[1]) : r.raised
    /\ Failed
    /\ UNCHANGED <<args, total_written, total_split, skipped_single, fs, call>>

\* safe_save(right, out2) returns; total_written += 2; total_split += 1
SaveSecond ==
    /\ pc = "save2"
    /\ \E r \in SaveResults(cur.im, out_names(idx)[2]) :
         ~r.raised /\ fs' = fs \cup {r.file.path.name}
    /\ cur' = [cur EXCEPT !.written = cur.written + 1]
    /\ total_written' = total_written + 2
    /\ total_split' = total_split + 1
    /\ pc' = "saved"
    /\ UNCHANGED <<args, idx, skipped_single, errors, log, call>>

\* safe_save(right, out2) raises
SaveSecondFails ==
    /\ pc = "save2"
    /\ \E r \in SaveResults(cur.im, out_names(idx)[2]) : r.raised
    /\ Failed
    /\ UNCHANGED <<args, total_written, total_split, skipped_single, fs, call>>

\* lines 230-233: maybe_move_original returns (or --organize is not given);
\* print("ok ...")
MoveOriginal ==
    /\ pc = "saved"
    /\ NextImage("ok")
    /\ UNCHANGED <<args, total_written, total_split, skipped_single, errors, fs, call>>

\* maybe_move_original raises (a rename across devices, a read-only folder)
MoveOriginalFails ==
    /\ pc = "saved" /\ args.organize
    /\ Failed
    /\ UNCHANGED <<args, total_written, total_split, skipped_single, fs, call>>

\* lines 239-248: the summary after the loop
Summary ==
    /\ pc = "open" /\ idx > NumImages
    /\ pc' = "done"
    /\ UNCHANGED <<args, idx, total_written, total_split, skipped_single, errors,
                   cur, fs, log, call>>

Next ==
    \/ OpenImage
    \/ OpenFails
    \/ ClassifyImage
    \/ SkipSingle
    \/ CheckExisting
    \/ SplitImage
    \/ SaveFirst
    \/ SaveFirstFails
    \/ SaveSecond
    \/ SaveSecondFails
    \/ MoveOriginal
    \/ MoveOriginalFails
    \/ Summary

Spec == Init /\ [][Next]_vars

\* main is one sequential loop: whichever step is enabled is eventually taken
SpecLive == Spec /\ WF_vars(Next)

----------------------------------------------------------------------------
(* Direct calls of the functions of the module: one call from the idle state *)

InitCall ==
    /\ pc = "call"
    /\ args = [mode |-> "auto", search |-> DEFAULT_SEARCH, band |-> DEFAULT_BAND,
               force |-> FALSE, organize |-> FALSE]
    /\ idx = 1
    /\ total_written = 0
    /\ total_split = 0
    /\ skipped_single = 0
    /\ errors = 0
    /\ cur = NoCur
    /\ fs = {}
    /\ log = <<>>
    /\ call = NoCall

main_vars == <<pc, args, idx, total_written, total_split, skipped_single, errors,
               cur, fs, log>>

CallDownsample ==
    /\ call = NoCall
    /\ \E in \in DsInputs :
         call' = [fn |-> "downsample_for_analysis", img |-> in[1], max_dim |-> in[2],
                  out |-> downsample_for_analysis(in[1], in[2])]
    /\ UNCHANGED main_vars

CallScoreVertical ==
    /\ call = NoCall
    /\ \E gray \in ScorerImages :
         \E x_center \in 0 .. gray.w + 1, band_px \in 0 .. MaxBandPx,
            y0 \in 0 .. gray.h, y1 \in 0 .. gray.h :
           /\ y0 <= y1
           /\ call' = [fn |-> "gutter_score_vertical", gray |-> gray, c |-> x_center,
                       band_px |-> band_px, p0 |-> y0, p1 |-> y1,
                       out |-> gutter_score_vertical(gray, x_center, band_px, y0, y1)]
    /\ UNCHANGED main_vars

CallScoreHorizontal ==
    /\ call = NoCall
    /\ \E im \in ScorerImages :
         \E gray \in {Transpose(im)} :
           \E y_center \in 0 .. gray.h + 1, band_px \in 0 .. MaxBandPx,
              x0 \in 0 .. gray.w, x1 \in 0 .. gray.w :
             /\ x0 <= x1
             /\ call' = [fn |-> "gutter_score_horizontal", gray |-> gray,
                         c |-> y_center, band_px |-> band_px, p0 |-> x0, p1 |-> x1,
                         out |-> gutter_score_horizontal(gray, y_center, band_px, x0, x1)]
    /\ UNCHANGED main_vars

CallFindSplitVertical ==
    /\ call = NoCall
    /\ \E in \in LocatorInputs :
         call' = [fn |-> "find_split_vertical", img |-> in[1], search |-> in[2],
                  band |-> in[3], out |-> find_split_vertical(in[1], in[2], in[3])]
    /\ UNCHANGED main_vars

CallFindSplitHorizontal ==
    /\ call = NoCall
    /\ \E in \in LocatorInputs :
         \E img \in {Transpose(in[1])} :
           call' = [fn |-> "find_split_horizontal", img |-> img, search |-> in[2],
                    band |-> in[3], out |-> find_split_horizontal(img, in[2], in[3])]
    /\ UNCHANGED main_vars

\* sub-images of every colour mode handed to safe_save
SaveImages ==
    {[Uniform(w, h, 0) EXCEPT !.cmode = m] :
        w \in 1 .. MaxSide, h \in 1 .. MaxSide, m \in {"RGB", "P", "RGBA"}}

CallSafeSave ==
    /\ call = NoCall
    /\ \E img \in SaveImages, ext \in SaveFormats, retry \in RetryOutcomes :
         \E path \in {[name |-> <<1, 1>>, ext |-> ext]} :
           \E first \in FirstOutcomes(img, path) :
             call' = [fn |-> "safe_save", img |-> img, path |-> path,
                      first |-> first, retry |-> retry,
                      out |-> safe_save(img, path, first, retry)]
    /\ UNCHANGED main_vars

NextSave == CallSafeSave

SpecSave == InitCall /\ [][NextSave]_vars

NextDownsampler == CallDownsample

SpecDownsampler == InitCall /\ [][NextDownsampler]_vars

NextScorer == CallScoreVertical \/ CallScoreHorizontal

SpecScorer == InitCall /\ [][NextScorer]_vars

NextLocator == CallFindSplitVertical \/ CallFindSplitHorizontal

SpecLocator == InitCall /\ [][NextLocator]_vars

----------------------------------------------------------------------------
(* Claims *)

\* main has produced the two sub-images of the current image
Cropped == pc \in {"save1", "save2", "saved"}

\* the dimension of the current image along the split axis
SplitDim == IF cur.mode = "vertical" THEN cur.im.w ELSE cur.im.h

\* C1: the two sub-images tile the input: along the split axis their extents
\* are non-negative and sum to the input's dimension, across it both keep the
\* input's extent.
C1_SplitTilesImage ==
    Cropped =>
        /\ cur.part1.w >= 0 /\ cur.part1.h >= 0
        /\ cur.part2.w >= 0 /\ cur.part2.h >= 0
        /\ IF cur.mode = "vertical"
           THEN /\ cur.part1.w + cur.part2.w = cur.im.w
                /\ cur.part1.h = cur.im.h /\ cur.part2.h = cur.im.h
           ELSE /\ cur.part1.h + cur.part2.h = cur.im.h
                /\ cur.part1.w = cur.im.w /\ cur.part2.w = cur.im.w

\* C1 witness: a vertical split of an image above the analysis limit, at the
\* seam the locator returned, into two non-empty parts
C1_Witness ==
    /\ pc = "save1" /\ cur.mode = "vertical" /\ cur.im.w = 1000
    /\ cur.split = cur.ret /\ cur.part1.w = cur.split
    /\ cur.part2.w = cur.im.w - cur.split /\ cur.part2.w >= 1

\* C2: the clamped seam lies in [1, dimension - 1] and both sub-images are
\* non-empty along the split axis, for every image and mode.
C2_BothPartsNonEmpty ==
    Cropped =>
        /\ 1 <= cur.split /\ cur.split <= SplitDim - 1
        /\ IF cur.mode = "vertical"
           THEN cur.part1.w >= 1 /\ cur.part2.w >= 1
           ELSE cur.part1.h >= 1 /\ cur.part2.h >= 1

\* the classifier's policy, straight from the ratios: w / max(h, 1) >= 1.35
RatioAtLeast135(a, b) == 100 * a >= 135 * Max(b, 1)

\* C3: with mode = auto the image is Vertical iff w / max(h,1) >= 1.35, else
\* Horizontal iff h / max(w,1) >= 1.35, else Single; 135 x 100 is Vertical,
\* 134 x 100 is Single; a Single image is skipped and writes nothing.
C3_AutoClassification ==
    /\ (args.mode = "auto" /\ cur.mode # "none") =>
          /\ cur.mode = IF RatioAtLeast135(cur.im.w, cur.im.h) THEN "vertical"
                        ELSE IF RatioAtLeast135(cur.im.h, cur.im.w) THEN "horizontal"
                        ELSE "single"
          /\ (cur.im.w = 135 /\ cur.im.h = 100) => cur.mode = "vertical"
          /\ (cur.im.w = 134 /\ cur.im.h = 100) => cur.mode = "single"
    /\ cur.mode = "single" =>
          pc = "skip_single" /\ cur.written = 0 /\ cur.part1 = NoPart /\ cur.part2 = NoPart
    /\ \A i \in DOMAIN log : log[i].line = "skipped_single" => log[i].written = 0

\* C3 witness: a first image skipped as Single, then 135 x 100 classified Vertical
C3_Witness ==
    /\ args.mode = "auto" /\ Len(log) = 1 /\ log[1].line = "skipped_single"
    /\ pc = "exists" /\ cur.im.w = 135 /\ cur.im.h = 100 /\ cur.mode = "vertical"

IsLocatorCall == call.fn \in {"find_split_vertical", "find_split_horizontal"}

LocatorAxis == IF call.fn = "find_split_vertical" THEN "vertical" ELSE "horizontal"

\* the scored rows (columns, for a horizontal seam) are not empty
ScoredRangeNonEmpty == call.out.p0 < call.out.p1

\* C4: (on non-empty scored rows) the best candidate is kept only if
\* best_score < 0.95 * center_score; in every other case (equality, no
\* candidate) the midline is selected.
C4_MidlineUnlessStrictlyBetter ==
    (IsLocatorCall /\ ScoredRangeNonEmpty) =>
        call.out.chosen =
            IF call.out.best_score # -1
               /\ BIAS_DEN * call.out.best_score < BIAS_NUM * call.out.center_score
            THEN call.out.best_x ELSE call.out.mid

\* every candidate band scores what the band at the midline scores
AllScoresEqualCenter ==
    \A i \in 1 .. Len(call.out.xs) :
        ScoreAt(call.out.gray, LocatorAxis, call.out.xs[i], call.out.band_px,
                call.out.p0, call.out.p1) = call.out.center_score

\* C5: for a uniform image (with non-empty scored rows) whose candidate bands
\* all score what the midline band scores, the locator returns the midline
\* mapped to full resolution.
C5_UniformReturnsMidline ==
    (IsLocatorCall /\ ScoredRangeNonEmpty /\ IsUniform(call.img) /\ AllScoresEqualCenter) =>
        call.out.ret = BackMap(call.out.mid, call.out.scale)

\* a black image with one white stripe [lo, hi) across the searched axis,
\* centred inside the search window, analysed at scale 1 over non-empty rows
StripeCase(bgs) ==
    /\ IsLocatorCall
    /\ ~IsUniform(call.img) /\ call.img.bg \in bgs /\ call.img.bg < call.img.fg
    /\ call.out.scale = <<1, 1>> /\ ScoredRangeNonEmpty
    /\ 2 * call.out.start <= call.img.lo + call.img.hi
    /\ call.img.lo + call.img.hi <= 2 * call.out.end

BandsUnclipped ==
    \A i \in 1 .. Len(call.out.xs) :
        /\ call.out.xs[i] - call.out.band_px \div 2 >= 0
        /\ call.out.xs[i] - call.out.band_px \div 2 + call.out.band_px <= call.out.dim

LocatorFullDim == IF call.fn = "find_split_vertical" THEN call.img.w ELSE call.img.h

\* C7: the locators never raise and return a coordinate of the image; when no
\* candidate was evaluated they return the midline.
C7_LocatorAlwaysReturns ==
    IsLocatorCall =>
        /\ ~call.out.raised
        /\ call.out.step >= 1
        /\ call.out.p0 <= call.out.p1
        /\ call.out.gray.w >= 1 /\ call.out.gray.h >= 1
        /\ 0 <= call.out.ret /\ call.out.ret < LocatorFullDim
        /\ Len(call.out.xs) = 0 =>
              /\ call.out.best_score = -1
              /\ call.out.ret = BackMap(call.out.mid, call.out.scale)

\* C7 witness: a 1-pixel dimension, an empty search range, the midline returned
C7_Witness ==
    /\ IsLocatorCall /\ LocatorFullDim = 1 /\ ~call.out.raised
    /\ call.out.start > call.out.end /\ Len(call.out.xs) = 0
    /\ call.out.ret = 0

IsScorerCall == call.fn \in {"gutter_score_vertical", "gutter_score_horizontal"}

\* the extent of the call's image along the axis of the band's centre
ScorerDim == IF call.fn = "gutter_score_vertical" THEN call.gray.w ELSE call.gray.h

\* the band's clamped strip [BandLo, BandHi) along that axis
BandLo == Max(0, call.c - call.band_px \div 2)

BandHi == Min(ScorerDim, BandLo + call.band_px)

BandArea == Max(0, BandHi - BandLo) * Max(0, call.p1 - call.p0)

\* the pixels of the band, as (x, y)
BandPixels ==
    IF call.fn = "gutter_score_vertical"
    THEN (BandLo .. BandHi - 1) \X (call.p0 .. call.p1 - 1)
    ELSE (call.p0 .. call.p1 - 1) \X (BandLo .. BandHi - 1)

\* the scorer of the call applied to another image
ScoreOf(gray) ==
    IF call.fn = "gutter_score_vertical"
    THEN gutter_score_vertical(gray, call.c, call.band_px, call.p0, call.p1)
    ELSE gutter_score_horizontal(gray, call.c, call.band_px, call.p0, call.p1)

\* C8: a band of zero area scores the sentinel, whether the strip or the
\* perpendicular range is empty.
C8_ZeroAreaScoresSentinel ==
    (IsScorerCall /\ BandArea = 0) => call.out = SENTINEL

\* C9: a band with area scores the sum of 255 - intensity over its pixels: 0
\* when all white, 255 * area when all black, within [0, 255 * area], below
\* the sentinel, and no lower after any pixel is made darker.
C9_ScoreIsInkSum ==
    (IsScorerCall /\ BandArea > 0) =>
        /\ call.out = SumOver(BandPixels,
                              [p \in BandPixels |-> WHITE - Pixel(call.gray, p[1], p[2])])
        /\ 0 <= call.out /\ call.out <= WHITE * BandArea /\ call.out < SENTINEL
        /\ (\A p \in BandPixels : Pixel(call.gray, p[1], p[2]) = WHITE) => call.out = 0
        /\ (\A p \in BandPixels : Pixel(call.gray, p[1], p[2]) = 0) =>
              call.out = WHITE * BandArea
        /\ \A p \in (0 .. call.gray.w - 1) \X (0 .. call.gray.h - 1) :
             \A v \in {0, 50, 100} :
               v < Pixel(call.gray, p[1], p[2]) =>
                 /\ ScoreOf(WithPixel(call.gray, p[1], p[2], v)) >= call.out
                 /\ p \in BandPixels =>
                      ScoreOf(WithPixel(call.gray, p[1], p[2], v))
                        = call.out + Pixel(call.gray, p[1], p[2]) - v

\* C9 witness: a band of two or more pixels, part stripe and part background
C9_Witness ==
    /\ IsScorerCall /\ BandArea >= 2
    /\ 0 < call.out /\ call.out < WHITE * BandArea
    /\ \E p, q \in BandPixels :
         Pixel(call.gray, p[1], p[2]) # Pixel(call.gray, q[1], q[2])

\* C10: the scale is >= 1; an image within max_dim comes back unchanged with
\* scale 1.0; a larger one comes back with scale max(w,h) / max_dim > 1 and
\* size (max(1, floor(w / scale)), max(1, floor(h / scale))), never larger
\* than the input.
C10_DownsampleFloorsBothSides ==
    call.fn = "downsample_for_analysis" =>
        LET M == Max(call.img.w, call.img.h)
        IN  /\ call.out.scale[1] >= call.out.scale[2]
            /\ M <= call.max_dim =>
                  call.out.img = call.img /\ call.out.scale = <<1, 1>>
            /\ M > call.max_dim =>
                  /\ call.out.scale = <<M, call.max_dim>>
                  /\ call.out.img.w = Max(1, (call.img.w * call.max_dim) \div M)
                  /\ call.out.img.h = Max(1, (call.img.h * call.max_dim) \div M)
                  /\ call.out.img.w <= call.img.w /\ call.out.img.h <= call.img.h

\* C11: the chosen analysis coordinate c is mapped to round(c * scale), the
\* integer nearest to c * scale (either neighbour at an exact half), with
\* scale >= 1.
C11_BackMapRounds ==
    (IsLocatorCall /\ ~call.out.raised) =>
        /\ call.out.scale[1] >= call.out.scale[2]
        /\ 2 * (call.out.ret * call.out.scale[2] - call.out.chosen * call.out.scale[1])
             <= call.out.scale[2]
        /\ 2 * (call.out.chosen * call.out.scale[1] - call.out.ret * call.out.scale[2])
             <= call.out.scale[2]

\* C12: one locator call scores no more than about 500 candidate positions
\* (500 and the end point of the range), whatever the resolution and the
\* search fraction; the midline baseline is one more evaluation.
C12_AtMost500Candidates ==
    (IsLocatorCall /\ ~call.out.raised) =>
        /\ call.out.step = Max(1, call.out.dim \div STRIDE_DIV)
        /\ Len(call.out.xs) <= STRIDE_DIV + 1

\* the lines printed so far that start with "failed"
FailedLines == {i \in DOMAIN log : log[i].line = "failed"}

\* C13: a failure on one image adds one to errors and prints one "failed"
\* line for that image only, the loop goes on to the next image, every image
\* gets its line, and the summary is eventually printed.
C13_BatchSurvivesFailures ==
    /\ [](/\ Len(log) = idx - 1
          /\ errors = Cardinality(FailedLines)
          /\ pc \in {"open", "classify", "skip_single", "exists", "split",
                     "save1", "save2", "saved", "done"}
          /\ pc = "done" => Len(log) = NumImages)
    /\ [][errors' # errors =>
            /\ errors' = errors + 1
            /\ Len(log') = Len(log) + 1
            /\ log'[Len(log')].line = "failed" /\ log'[Len(log')].idx = idx
            /\ idx' = idx + 1 /\ pc' = "open"]_vars
    /\ <>(pc = "done")

\* C13 witness: the first image failed, the last one was split, the summary
\* was printed
C13_Witness ==
    /\ pc = "done" /\ Len(log) = NumImages /\ errors = 1
    /\ log[1].line = "failed" /\ log[NumImages].line = "ok"

\* the score of the candidate position x of the call, computed again
CandidateScore(x) ==
    ScoreAt(call.out.gray, LocatorAxis, x, call.out.band_px, call.out.p0, call.out.p1)

\* C14: the scorer is evaluated at exactly start, start + stride, ... <= end
\* with start = max(1, mid - half_window), end = min(dimension - 2,
\* mid + half_window); the tracked candidate has the minimum score, the lowest
\* coordinate among equal scores; the coordinate selected is mid or lies in
\* [start, end].
C14_ScanTracksFirstMinimum ==
    (IsLocatorCall /\ ~call.out.raised) =>
        LET o    == call.out
            half == (o.dim * call.search[1]) \div (2 * call.search[2])
        IN  /\ o.mid = o.dim \div 2
            /\ o.start = Max(1, o.mid - half)
            /\ o.end = Min(o.dim - 2, o.mid + half)
            /\ \A i \in 1 .. Len(o.xs) :
                 o.xs[i] = o.start + (i - 1) * o.step /\ o.xs[i] <= o.end
            /\ o.start + Len(o.xs) * o.step > o.end
            /\ Len(o.xs) > 0 =>
                 /\ \E i \in 1 .. Len(o.xs) : o.xs[i] = o.best_x
                 /\ o.best_score = CandidateScore(o.best_x)
                 /\ \A i \in 1 .. Len(o.xs) :
                      /\ CandidateScore(o.xs[i]) >= o.best_score
                      /\ CandidateScore(o.xs[i]) = o.best_score => o.xs[i] >= o.best_x
            /\ o.chosen = o.mid \/ (o.start <= o.chosen /\ o.chosen <= o.end)
            /\ o.chosen \in {o.mid, o.best_x}

\* C14 witness: two candidates share the minimum, the lower one is tracked
\* and selected, and it is neither the first candidate nor the midline
C14_Witness ==
    /\ IsLocatorCall /\ ~call.out.raised /\ Len(call.out.xs) >= 3
    /\ call.out.best_x > call.out.start /\ call.out.best_x # call.out.mid
    /\ call.out.chosen = call.out.best_x
    /\ \E i \in 1 .. Len(call.out.xs) :
         /\ call.out.xs[i] > call.out.best_x
         /\ CandidateScore(call.out.xs[i]) = call.out.best_score

\* C17: the coordinate returned lies in [0, dimension - 1], and in
\* [1, dimension - 1] when the analysis image has 2 or more pixels along the
\* searched axis; the clamp of the splitter changes it only when the analysis
\* dimension is 1 and the coordinate is 0, and min(dimension - 1, .) never
\* lowers it.
C17_SeamWithinImage ==
    IsLocatorCall =>
        /\ ~call.out.raised
        /\ 0 <= call.out.ret /\ call.out.ret <= LocatorFullDim - 1
        /\ call.out.dim >= 2 => 1 <= call.out.ret
        /\ call.out.dim = 1 => call.out.ret = 0
        /\ Min(LocatorFullDim - 1, call.out.ret) = call.out.ret
        /\ ClampSeam(LocatorFullDim, call.out.ret) # call.out.ret =>
              /\ call.out.dim = 1 /\ call.out.ret = 0
              /\ ClampSeam(LocatorFullDim, call.out.ret) = 1

\* C17 witness: a full-resolution side of 2 pixels analysed as 1 pixel: the
\* locator returns 0 and the clamp moves the seam to 1
C17_Witness ==
    /\ IsLocatorCall /\ ~call.out.raised
    /\ LocatorFullDim = 2 /\ call.out.dim = 1 /\ call.out.scale # <<1, 1>>
    /\ call.out.ret = 0 /\ ClampSeam(LocatorFullDim, call.out.ret) = 1

\* C15: when the first save attempt raises OSError, safe_save converts the
\* image to RGB and saves again exactly once; if that succeeds no exception
\* leaves safe_save and the file is written (in RGB); on this path only a
\* failure of the retry leaves safe_save.  A first attempt that succeeds is
\* the only attempt and writes the image in its own mode.
C15_SaveRetriesOnceAsRGB ==
    call.fn = "safe_save" =>
        /\ call.first = "OSError" =>
              /\ call.out.converted /\ call.out.attempts = 2
              /\ call.out.raised <=> call.retry = "fail"
              /\ call.retry = "ok" =>
                    /\ ~call.out.raised
                    /\ call.out.file = [path |-> call.path, cmode |-> "RGB"]
              /\ call.retry = "fail" => call.out.file = NoFile
        /\ call.first = "ok" =>
              /\ ~call.out.raised /\ ~call.out.converted /\ call.out.attempts = 1
              /\ call.out.file = [path |-> call.path, cmode |-> call.img.cmode]
        /\ call.out.attempts \in {1, 2}
        /\ call.out.raised <=> call.out.file = NoFile

\* C15 witness: a palette image saved as JPEG: the first attempt raises
\* OSError, the retry in RGB succeeds, nothing reaches the caller
C15_Witness ==
    /\ call.fn = "safe_save" /\ call.img.cmode = "P" /\ call.path.ext = "jpg"
    /\ call.first = "OSError" /\ call.retry = "ok"
    /\ ~call.out.raised /\ call.out.attempts = 2 /\ call.out.file.cmode = "RGB"

\* the images whose printed line is line
LinesOf(line) == {i \in DOMAIN log : log[i].line = line}

\* C16: every scanned image has exactly one outcome: total_written is twice
\* total_split, total_split + skipped_single + errors does not exceed the
\* number of images scanned, between two images each counter equals the
\* number of lines of its outcome (no image is both split and failed), and an
\* image reported "failed | wrote 0" wrote no output file.
C16_OneOutcomePerImage ==
    /\ total_written = 2 * total_split
    /\ pc \in {"open", "done"} =>
          /\ total_split + skipped_single + errors <= Len(log)
          /\ total_split = Cardinality(LinesOf("ok"))
          /\ skipped_single = Cardinality(LinesOf("skipped_single"))
          /\ errors = Cardinality(LinesOf("failed"))
    /\ \A i \in LinesOf("failed") : log[i].written = 0

====
